---- MODULE Spec2Model ----
(***************************************************************************)
(* LevelNotes desktop back end (apps/desktop/src-tauri/src/main.rs): the   *)
(* notes table, the external-content FTS5 index notes_fts kept by the      *)
(* triggers notes_ai / notes_ad / notes_au, the preview files, and the     *)
(* axum request handlers that share one Mutex<Connection>.                 *)
(*                                                                         *)
(* A string is a sequence of code points (32 = ' ', 10 = '\n', 97.. =      *)
(* 'a'..), so trimming, tokenising, prefixes and the byte order of the     *)
(* BTreeSet are computed.  Option<T> is <<>> (None) or <<x>> (Some(x)).    *)
(***************************************************************************)
EXTENDS Integers, Sequences, FiniteSets, TLC

None == <<>>
Some(x) == <<x>>
IsSome(o) == o # <<>>
Unwrap(o) == o[1]

Min(a, b) == IF a <= b THEN a ELSE b

(* ------------------------------ bounds -------------------------------- *)
\* mutating requests (clip, append, update, delete) started in a run; it also
\* bounds the notes created, the requests in flight and the clock
MaxWrites == 3
\* tags in a list handed to merge_tags on its own
MaxTags == 3
\* requests that contend for the store lock at a time
MaxTasks == 2
\* writing requests among those that contend for the lock
MaxLockWrites == 2

(* --------------------------- program constants ------------------------ *)
TitleChars == 80
SnippetChars == 160
FileNameChars == 60
ListLimit == 200
SearchLimit == 100

(* ------------------------------ strings ------------------------------- *)
\* char::is_whitespace on the code points used here
IsWhitespace(c) == c \in {9, 10, 13, 32}
\* the unicode61 tokenizer's token characters (letters and digits)
IsTokenChar(c) ==
  (c >= 97 /\ c <= 122) \/ (c >= 65 /\ c <= 90) \/ (c >= 48 /\ c <= 57)
\* the tokenizer folds upper case to lower case
Fold(c) == IF c >= 65 /\ c <= 90 THEN c + 32 ELSE c

RECURSIVE TrimStart(_)
TrimStart(s) ==
  IF s = <<>> THEN <<>>
  ELSE IF IsWhitespace(Head(s)) THEN TrimStart(Tail(s)) ELSE s

RECURSIVE TrimEnd(_)
TrimEnd(s) ==
  IF s = <<>> THEN <<>>
  ELSE IF IsWhitespace(s[Len(s)]) THEN TrimEnd(SubSeq(s, 1, Len(s) - 1)) ELSE s

\* str::trim
Trim(s) == TrimEnd(TrimStart(s))

\* chars().take(n).collect::<String>()
Take(s, n) == SubSeq(s, 1, Min(n, Len(s)))

IsPrefix(p, s) == Len(p) <= Len(s) /\ SubSeq(s, 1, Len(p)) = p

\* byte-wise lexicographic order of String (Ord for String)
RECURSIVE StrLess(_, _)
StrLess(s, t) ==
  IF t = <<>> THEN FALSE
  ELSE IF s = <<>> THEN TRUE
  ELSE IF Head(s) < Head(t) THEN TRUE
  ELSE IF Head(s) > Head(t) THEN FALSE
  ELSE StrLess(Tail(s), Tail(t))

\* BTreeSet<String>::into_iter().collect(): the set in ascending order
RECURSIVE SortedSeq(_)
SortedSeq(S) ==
  IF S = {} THEN <<>>
  ELSE LET m == CHOOSE x \in S : \A y \in S \ {x} : StrLess(x, y)
       IN <<m>> \o SortedSeq(S \ {m})

Range(f) == {f[i] : i \in DOMAIN f}

\* the tokens the FTS5 tokenizer finds in a text: its maximal runs of token
\* characters, folded
Tokens(s) ==
  LET tok(k) == IsTokenChar(s[k])
      starts == {i \in DOMAIN s : tok(i) /\ (i = 1 \/ ~tok(i - 1))}
      ends == {j \in DOMAIN s : tok(j) /\ (j = Len(s) \/ ~tok(j + 1))}
      end(i) == CHOOSE j \in ends : j >= i /\ \A e \in ends : e >= i => j <= e
  IN {[k \in 1 .. (end(i) - i + 1) |-> Fold(s[i + k - 1])] : i \in starts}

\* the tokens of a nullable column value (NULL has none)
ColTokens(o) == IF IsSome(o) THEN Tokens(Unwrap(o)) ELSE {}

(* ------------------------------ inputs -------------------------------- *)
\* "a", "b", "c", " b", "u"
StrA == <<97>>
StrB == <<98>>
StrC == <<99>>
StrSpB == <<32, 98>>
StrUrl == <<117>>
\* "Untitled clip"
UntitledClip == <<85, 110, 116, 105, 116, 108, 101, 100, 32, 99, 108, 105, 112>>
\* "Not found"
NotFoundTitle == <<78, 111, 116, 32, 102, 111, 117, 110, 100>>
\* "\n\n"
BlankLine == <<10, 10>>

Rect1 == [x |-> 1, y |-> 2, w |-> 3, h |-> 4]

\* a data URL, by what save_data_url_png looks at: whether it has a comma
\* and what its base64 part decodes to (None: not base64)
UrlPng1 == [comma |-> TRUE, decoded |-> Some(1)]
UrlPng2 == [comma |-> TRUE, decoded |-> Some(2)]
UrlNotBase64 == [comma |-> TRUE, decoded |-> None]
UrlNoComma == [comma |-> FALSE, decoded |-> None]

MessyTags == <<StrB, <<32, 97>>, <<>>, StrB>>

\* ClipPayload values posted to /clip
ClipPayloads ==
  { [source |-> None, selection |-> None, media |-> None, ops |-> None],
    [source |-> Some([url |-> Some(StrUrl)]),
     selection |-> Some([text |-> Some(StrA), html |-> None]),
     media |-> Some([screenshotDataUrl |-> Some(UrlPng1)]),
     ops |-> Some([tags |-> Some(<<StrB>>), page |-> Some(3),
                   highlights |-> Some(<<Rect1>>)])],
    [source |-> Some([url |-> None]),
     selection |-> Some([text |-> Some(StrSpB), html |-> Some(StrA)]),
     media |-> Some([screenshotDataUrl |-> Some(UrlNotBase64)]),
     ops |-> Some([tags |-> Some(MessyTags), page |-> None,
                   highlights |-> None])],
    [source |-> None,
     selection |-> Some([text |-> Some(<<>>), html |-> Some(<<>>)]),
     media |-> Some([screenshotDataUrl |-> Some(UrlNoComma)]),
     ops |-> Some([tags |-> None, page |-> None, highlights |-> Some(<<>>)])] }

\* a payload that carries a selection text only
TextClip(text) ==
  [source |-> None, selection |-> Some([text |-> text, html |-> None]),
   media |-> None, ops |-> None]

\* "bcabca..." of n characters
Letters(n) == [k \in 1 .. n |-> 97 + (k % 3)]

\* selection texts by what the title rule looks at: absent, empty, blank,
\* padded, of exactly 80 characters, and padded with 81 characters between
\* the blanks
TitleTexts ==
  { None, Some(<<>>), Some(<<32, 10>>), Some(<<32, 97, 32, 98, 10>>),
    Some(Letters(TitleChars)),
    Some(<<32>> \o Letters(TitleChars + 1) \o <<10>>) }

TitlePayloads ==
  {[source |-> None, selection |-> None, media |-> None, ops |-> None]}
    \cup {TextClip(text) : text \in TitleTexts}

\* ClipPayload values posted to /append/:id
AppendPayloads ==
  { [source |-> Some([url |-> Some(StrUrl)]),
     selection |-> Some([text |-> Some(StrB), html |-> Some(StrB)]),
     media |-> Some([screenshotDataUrl |-> Some(UrlPng2)]),
     ops |-> Some([tags |-> Some(<<StrA>>), page |-> Some(3),
                   highlights |-> Some(<<Rect1>>)])],
    [source |-> None,
     selection |-> Some([text |-> Some(<<>>), html |-> None]),
     media |-> None,
     ops |-> Some([tags |-> Some(MessyTags), page |-> None,
                   highlights |-> None])] }

\* tag strings: "", "a", "b", " a"; the lists of at most n of them
TagStrs == {<<>>, StrA, StrB, <<32, 97>>}
TagLists(n) == UNION {[1 .. k -> TagStrs] : k \in 0 .. n}

\* UpdatePayload values posted to /update/:id
UpdatePayloads ==
  { [title |-> Some(StrC), tags |-> None],
    [title |-> None, tags |-> Some(MessyTags)] }

\* q parameters sent to /search: absent, blank, and one-word queries
Queries == {None, Some(<<32>>), Some(StrA), Some(StrB), Some(StrC)}

\* q parameters that are no FTS5 query: a lone double quote, and a word
\* followed by one
StrQuote == <<34>>
MalformedQueries == {Some(StrQuote), Some(StrA \o StrQuote)}

(* --------------------------- pure functions --------------------------- *)
\* serde_json::from_str::<Vec<String>>(&j).ok() on a nullable tags_json: the
\* column holds the array serde_json::to_string wrote, or NULL
ParseTags(tags_json) == IF IsSome(tags_json) THEN Unwrap(tags_json) ELSE <<>>

\* a merge that pushes the additions onto the old list as they come
MergeTagsPushed(old_json, add) == ParseTags(old_json) \o add

\* merge_tags(old_json, add): the old tags as a BTreeSet, each addition
\* trimmed and inserted unless empty, serialized in ascending order
merge_tags(old_json, add) ==
  LET old == Range(ParseTags(old_json))
      new == {Trim(add[i]) : i \in DOMAIN add} \ {<<>>}
  IN SortedSeq(old \cup new)

\* a merge that joins the texts without the blank line
MergeTextNoBlankLine(old, add_text) ==
  IF IsSome(old) THEN Unwrap(old) \o add_text ELSE add_text

\* new_pt / new_html of the /append handler
MergeText(old, add_text) ==
  IF IsSome(old)
  THEN LET prev == Unwrap(old)
       IN IF add_text # <<>> /\ prev # <<>> THEN prev \o BlankLine \o add_text
          ELSE IF prev = <<>> THEN add_text
          ELSE prev
  ELSE add_text

\* a title cut to 80 characters before it is trimmed
ClipTitleCutFirst(payload) ==
  LET text == IF IsSome(payload.selection)
              THEN Unwrap(payload.selection).text ELSE None
      t == IF IsSome(text) THEN Trim(Take(Unwrap(text), TitleChars)) ELSE <<>>
  IN IF IsSome(text) /\ t # <<>> THEN t ELSE UntitledClip

\* title of the /clip handler
ClipTitle(payload) ==
  LET text == IF IsSome(payload.selection)
              THEN Unwrap(payload.selection).text ELSE None
      t == IF IsSome(text) THEN Trim(Unwrap(text)) ELSE <<>>
  IN IF IsSome(text) /\ t # <<>> THEN Take(t, TitleChars) ELSE UntitledClip

SelText(payload) ==
  IF IsSome(payload.selection) THEN Unwrap(payload.selection).text ELSE None
SelHtml(payload) ==
  IF IsSome(payload.selection) THEN Unwrap(payload.selection).html ELSE None
OpsTags(payload) ==
  IF IsSome(payload.ops) THEN Unwrap(payload.ops).tags ELSE None
\* unwrap_or_default() of an Option<String> / Option<Vec<String>>
OrDefault(o) == IF IsSome(o) THEN Unwrap(o) ELSE <<>>
DataUrl(payload) ==
  IF IsSome(payload.media) THEN Unwrap(payload.media).screenshotDataUrl ELSE None

\* format!("previews/{}.png", id)
PreviewRel(id) == <<"previews", id>>

\* save_data_url_png: the bytes it writes (None when the URL has no comma or
\* is not base64, or when fs::write fails) 
SavedBytes(data_url, fs_ok) ==
  IF data_url.comma /\ IsSome(data_url.decoded) /\ fs_ok
  THEN data_url.decoded ELSE None

\* the snippet of a list item
Snippet(plaintext) ==
  IF IsSome(plaintext)
  THEN LET s == Trim(Unwrap(plaintext))
           out == Take(s, SnippetChars)
       IN Some(IF Len(s) > Len(out) THEN out \o <<8230>> ELSE out)
  ELSE None

(* ------------------------- the full-text index ------------------------ *)
FtsCols == {"title", "plaintext", "html", "tags"}

\* group_concat(value, ' ') over json_each(tags_json), '' when empty
RECURSIVE GroupConcat(_)
GroupConcat(tags) ==
  IF tags = <<>> THEN <<>>
  ELSE IF Len(tags) = 1 THEN tags[1]
  ELSE tags[1] \o <<32>> \o GroupConcat(Tail(tags))

\* the column values the triggers hand to notes_fts for a row
FtsValues(row) ==
  [title |-> Some(row.title), plaintext |-> row.plaintext, html |-> row.html,
   tags |-> Some(GroupConcat(ParseTags(row.tags_json)))]

\* the column values of a 'delete' command that names only the rowid
NoValues == [c \in FtsCols |-> None]

Postings(rowid, vals) ==
  UNION {{<<rowid, c, t>> : t \in ColTokens(vals[c])} : c \in FtsCols}

\* INSERT INTO notes_fts(rowid, ...) on an external-content table: the
\* tokens of the given values are posted under the rowid
FtsInsert(idx, rowid, vals) ==
  [postings |-> idx.postings \cup Postings(rowid, vals),
   docsize |-> idx.docsize \cup {rowid}]

\* INSERT INTO notes_fts(notes_fts, rowid, ...) VALUES ('delete', ...): FTS5
\* tokenizes the values given with the command and removes those postings of
\* the rowid; it does not read the content table
FtsDelete(idx, rowid, vals) ==
  [postings |-> idx.postings \ Postings(rowid, vals),
   docsize |-> idx.docsize \ {rowid}]

\* trigger notes_ai
notes_ai(idx, new) == FtsInsert(idx, new.rowid, FtsValues(new))
\* trigger notes_ad
notes_ad(idx, old) == FtsDelete(idx, old.rowid, NoValues)
\* trigger notes_au
notes_au(idx, old, new) ==
  FtsInsert(FtsDelete(idx, old.rowid, NoValues), new.rowid, FtsValues(new))

(* -------------------------------- state ------------------------------- *)
VARIABLES
  notes,      \* table notes: id -> row, for the ids that have a row
  notes_fts,  \* the FTS5 index: its postings and its docsize rows
  previews,   \* data_dir/previews/{id}.png: id -> Option<bytes>
  handler,    \* the /append and /update requests between their lock sections
  resp,       \* the response of the request that completed last
  next_id,    \* the ids Uuid::new_v4 has handed out are 1 .. next_id - 1
  clock,      \* Utc::now()
  writes,     \* mutating requests started so far
  clipped,    \* the payload each note was created from
  gone,       \* the tokens of the rows DELETE has removed
  call,       \* a call of merge_tags on its own: its arguments and result
  mutex,      \* the Mutex around the Connection: its holder, its poison flag
  task        \* the requests that are taking the lock, one lock() at a time

vars == <<notes, notes_fts, previews, handler, resp, next_id, clock,
          writes, clipped, gone, call, mutex, task>>

\* the variables of the running server
server == <<notes, notes_fts, previews, handler, resp, next_id, clock,
            writes, clipped, gone>>

Handlers == 1 .. MaxWrites
Ids == 1 .. MaxWrites
\* NoteDetail.id of the "not-found" record
NotFoundId == 0 - 1

Idle == [pc |-> "idle"]

\* a request enters the first free handler (the handlers are interchangeable)
Free(h) == handler[h] = Idle /\ \A g \in Handlers : g < h => handler[g] # Idle

\* ids a client can name: the ones handed out so far, and 0, which no note has
Targets == 0 .. (next_id - 1)

Live == DOMAIN notes

\* the rowid SQLite gives a new row of a table without INTEGER PRIMARY KEY:
\* one more than the largest rowid in the table
NewRowid ==
  IF Live = {} THEN 1
  ELSE (CHOOSE r \in {notes[i].rowid : i \in Live} :
          \A i \in Live : notes[i].rowid <= r) + 1

RowTokens(row) == UNION {ColTokens(FtsValues(row)[c]) : c \in FtsCols}

\* the server after init_db_at on a new database: no note, nothing indexed,
\* no request in flight
Fresh ==
  /\ notes = <<>>
  /\ notes_fts = [postings |-> {}, docsize |-> {}]
  /\ previews = [i \in Ids |-> None]
  /\ handler = [h \in Handlers |-> Idle]
  /\ resp = [op |-> "none"]
  /\ next_id = 1
  /\ clock = 1
  /\ writes = 0
  /\ clipped = <<>>
  /\ gone = {}

NoCall == [step |-> "none"]

Tasks == 1 .. MaxTasks
NoTask == [pc |-> "idle"]

\* Mutex::new(connection): nobody holds it, it is not poisoned
NoLock ==
  /\ mutex = [holder |-> 0, poisoned |-> FALSE]
  /\ task = [h \in Tasks |-> NoTask]

Init == Fresh /\ call = NoCall /\ NoLock

\* A lock section runs from lock() to the end of its block with nothing else
\* of the handler in between.  The handler steps below are the sections, each
\* one step; taken on their own they leave the mutex out of sight, which is
\* free before and after each of them.
Apart == UNCHANGED <<call, mutex, task>>

\* a /clip that stores the trimmed text as text_quote
ClipRowTrimmedQuote(id, created_at, payload, preview_rel) ==
  [rowid |-> NewRowid, id |-> id, created_at |-> created_at,
   title |-> ClipTitle(payload),
   plaintext |-> SelText(payload),
   html |-> SelHtml(payload),
   source_url |-> IF IsSome(payload.source)
                  THEN Unwrap(payload.source).url ELSE None,
   text_quote |-> IF IsSome(SelText(payload))
                  THEN Some(Trim(Unwrap(SelText(payload)))) ELSE None,
   preview_path |-> preview_rel,
   tags_json |-> Some(OrDefault(OpsTags(payload))),
   page_number |-> IF IsSome(payload.ops)
                   THEN Unwrap(payload.ops).page ELSE None,
   highlights_json |-> Some(IF IsSome(payload.ops)
                            THEN OrDefault(Unwrap(payload.ops).highlights)
                            ELSE <<>>)]

(* ----------------------------- POST /clip ----------------------------- *)
\* The handler touches shared state only in its one lock section (and in a
\* preview file named by the fresh id), so it is one step.  Time may pass
\* between two clips: the first note is stamped 1, a later one with the
\* stamp of the one before or the next.
ClipRow(id, created_at, payload, preview_rel) ==
  [rowid |-> NewRowid, id |-> id, created_at |-> created_at,
   title |-> ClipTitle(payload),
   plaintext |-> SelText(payload),
   html |-> SelHtml(payload),
   source_url |-> IF IsSome(payload.source)
                  THEN Unwrap(payload.source).url ELSE None,
   text_quote |-> SelText(payload),
   preview_path |-> preview_rel,
   tags_json |-> Some(OrDefault(OpsTags(payload))),
   page_number |-> IF IsSome(payload.ops)
                   THEN Unwrap(payload.ops).page ELSE None,
   highlights_json |-> Some(IF IsSome(payload.ops)
                            THEN OrDefault(Unwrap(payload.ops).highlights)
                            ELSE <<>>)]

\* a /clip that stores the preview path whenever a data URL was sent
ClipStoresPathUnsaved(payload, fs_ok, t) ==
  LET id == next_id
      bytes == IF IsSome(DataUrl(payload))
               THEN SavedBytes(Unwrap(DataUrl(payload)), fs_ok) ELSE None
      preview_rel == IF IsSome(DataUrl(payload)) THEN Some(PreviewRel(id))
                     ELSE None
      row == ClipRow(id, t, payload, preview_rel)
  IN /\ writes < MaxWrites
     /\ t = clock \/ next_id > 1
     /\ writes' = writes + 1
     /\ next_id' = next_id + 1
     /\ clock' = t
     /\ previews' = IF IsSome(bytes) THEN [previews EXCEPT ![id] = bytes]
                    ELSE previews
     /\ notes' = [i \in Live \cup {id} |-> IF i = id THEN row ELSE notes[i]]
     /\ notes_fts' = notes_ai(notes_fts, row)
     /\ clipped' = [i \in DOMAIN clipped \cup {id} |->
                      IF i = id THEN payload ELSE clipped[i]]
     /\ resp' = [op |-> "clip", status |-> 200, ok |-> TRUE, note_id |-> id]
     /\ UNCHANGED <<handler, gone>>

Clip(payload, fs_ok, t) ==
  LET id == next_id
      bytes == IF IsSome(DataUrl(payload))
               THEN SavedBytes(Unwrap(DataUrl(payload)), fs_ok) ELSE None
      preview_rel == IF IsSome(bytes) THEN Some(PreviewRel(id)) ELSE None
      row == ClipRow(id, t, payload, preview_rel)
  IN /\ writes < MaxWrites
     /\ t = clock \/ next_id > 1
     /\ writes' = writes + 1
     /\ next_id' = next_id + 1
     /\ clock' = t
     /\ previews' = IF IsSome(bytes) THEN [previews EXCEPT ![id] = bytes]
                    ELSE previews
     /\ notes' = [i \in Live \cup {id} |-> IF i = id THEN row ELSE notes[i]]
     /\ notes_fts' = notes_ai(notes_fts, row)
     /\ clipped' = [i \in DOMAIN clipped \cup {id} |->
                      IF i = id THEN payload ELSE clipped[i]]
     /\ resp' = [op |-> "clip", status |-> 200, ok |-> TRUE, note_id |-> id]
     /\ UNCHANGED <<handler, gone>>

\* a DELETE without its WHERE clause: every row goes
DeleteEveryRow(id) ==
  /\ writes < MaxWrites
  /\ writes' = writes + 1
  /\ notes' = <<>>
  /\ notes_fts' = notes_fts
  /\ gone' = gone \cup UNION {RowTokens(notes[i]) : i \in Live}
  /\ resp' = [op |-> "delete", id |-> id, status |-> 200, ok |-> TRUE,
              affected |-> Cardinality(Live)]
  /\ UNCHANGED <<previews, handler, next_id, clock, clipped>>

(* -------------------------- POST /delete/:id -------------------------- *)
\* One lock section.  `affected` is what db.execute returns (the number of
\* rows the DELETE removed); the handler prints it and answers ok.
Delete(id) ==
  LET affected == IF id \in Live THEN 1 ELSE 0
  IN /\ writes < MaxWrites
     /\ writes' = writes + 1
     /\ notes' = [i \in Live \ {id} |-> notes[i]]
     /\ notes_fts' = IF id \in Live THEN notes_ad(notes_fts, notes[id])
                     ELSE notes_fts
     /\ gone' = IF id \in Live THEN gone \cup RowTokens(notes[id]) ELSE gone
     /\ resp' = [op |-> "delete", id |-> id, status |-> 200, ok |-> TRUE,
                 affected |-> affected]
     /\ UNCHANGED <<previews, handler, next_id, clock, clipped>>

\* an /append that takes a missing row for an empty one and goes on
AppendReadUnchecked(h, id, payload) ==
  /\ Free(h)
  /\ writes < MaxWrites
  /\ writes' = writes + 1
  /\ handler' = [handler EXCEPT ![h] =
         [pc |-> "append_loaded", id |-> id, payload |-> payload,
          old_pt |-> IF id \in Live THEN notes[id].plaintext ELSE None,
          old_html |-> IF id \in Live THEN notes[id].html ELSE None,
          old_tags_json |-> IF id \in Live THEN notes[id].tags_json ELSE None,
          old_preview |-> IF id \in Live THEN notes[id].preview_path
                          ELSE None]]
  /\ UNCHANGED <<notes, notes_fts, previews, resp, next_id, clock, clipped,
                 gone>>

\* an UPDATE that sets preview_path = ?4 without the COALESCE
AppendRowSetsPreview(old, r) ==
  [old EXCEPT !.plaintext = Some(r.new_pt),
              !.html = Some(r.new_html),
              !.tags_json = Some(r.tags_json),
              !.preview_path = r.preview_rel]

(* ------------------------- POST /append/:id --------------------------- *)
\* first lock section: load the row, or answer 404
AppendRead(h, id, payload) ==
  /\ Free(h)
  /\ writes < MaxWrites
  /\ writes' = writes + 1
  /\ IF id \in Live
     THEN /\ handler' = [handler EXCEPT ![h] =
                 [pc |-> "append_loaded", id |-> id, payload |-> payload,
                  old_pt |-> notes[id].plaintext,
                  old_html |-> notes[id].html,
                  old_tags_json |-> notes[id].tags_json,
                  old_preview |-> notes[id].preview_path]]
          /\ UNCHANGED resp
     ELSE /\ resp' = [op |-> "append", id |-> id, status |-> 404, ok |-> FALSE]
          /\ UNCHANGED handler
  /\ UNCHANGED <<notes, notes_fts, previews, next_id, clock, clipped, gone>>

\* between the lock sections: merge, and save the preview when the loaded row
\* had none
AppendMerge(h, fs_ok) ==
  LET r == handler[h]
      add_text == OrDefault(SelText(r.payload))
      add_html == OrDefault(SelHtml(r.payload))
      add_tags == OrDefault(OpsTags(r.payload))
      saves == ~IsSome(r.old_preview) /\ IsSome(DataUrl(r.payload))
      bytes == IF saves THEN SavedBytes(Unwrap(DataUrl(r.payload)), fs_ok)
               ELSE None
      preview_rel == IF ~IsSome(r.old_preview)
                     THEN (IF IsSome(bytes) THEN Some(PreviewRel(r.id))
                           ELSE None)
                     ELSE r.old_preview
  IN /\ r.pc = "append_loaded"
     /\ saves \/ fs_ok
     /\ handler' = [handler EXCEPT ![h] =
            [pc |-> "append_merged", id |-> r.id, payload |-> r.payload,
             old_pt |-> r.old_pt, old_html |-> r.old_html,
             new_pt |-> MergeText(r.old_pt, add_text),
             new_html |-> MergeText(r.old_html, add_html),
             tags_json |-> merge_tags(r.old_tags_json, add_tags),
             preview_rel |-> preview_rel]]
     /\ previews' = IF IsSome(bytes) THEN [previews EXCEPT ![r.id] = bytes]
                    ELSE previews
     /\ UNCHANGED <<notes, notes_fts, resp, next_id, clock, writes, clipped,
                    gone>>

\* the row the UPDATE of /append leaves
AppendRow(old, r) ==
  [old EXCEPT !.plaintext = Some(r.new_pt),
              !.html = Some(r.new_html),
              !.tags_json = Some(r.tags_json),
              !.preview_path = IF IsSome(old.preview_path)
                               THEN old.preview_path ELSE r.preview_rel]

\* second lock section: UPDATE notes ... WHERE id
AppendWrite(h) ==
  LET r == handler[h]
  IN /\ r.pc = "append_merged"
     /\ IF r.id \in Live
        THEN LET new == AppendRow(notes[r.id], r)
             IN /\ notes' = [notes EXCEPT ![r.id] = new]
                /\ notes_fts' = notes_au(notes_fts, notes[r.id], new)
        ELSE UNCHANGED <<notes, notes_fts>>
     /\ resp' = [op |-> "append", id |-> r.id, status |-> 200, ok |-> TRUE]
     /\ handler' = [handler EXCEPT ![h] = Idle]
     /\ UNCHANGED <<previews, next_id, clock, writes, clipped, gone>>

(* ------------------------- POST /update/:id --------------------------- *)
\* first lock section: load tags_json (None when there is no row)
UpdateRead(h, id, payload) ==
  /\ Free(h)
  /\ writes < MaxWrites
  /\ writes' = writes + 1
  /\ handler' = [handler EXCEPT ![h] =
         [pc |-> "update_loaded", id |-> id, payload |-> payload,
          old_tags_json |-> IF id \in Live THEN notes[id].tags_json
                            ELSE None]]
  /\ UNCHANGED <<notes, notes_fts, previews, resp, next_id, clock, clipped,
                 gone>>

\* merged of the /update handler
UpdateMerged(r) ==
  IF IsSome(r.payload.tags)
  THEN merge_tags(r.old_tags_json, Unwrap(r.payload.tags))
  ELSE ParseTags(r.old_tags_json)

\* the row the UPDATE of /update leaves
UpdateRow(old, r) ==
  [old EXCEPT !.title = IF IsSome(r.payload.title)
                        THEN Unwrap(r.payload.title) ELSE old.title,
              !.tags_json = Some(UpdateMerged(r))]

\* second lock section: UPDATE notes ... WHERE id; the answer is always ok
UpdateWrite(h) ==
  LET r == handler[h]
  IN /\ r.pc = "update_loaded"
     /\ IF r.id \in Live
        THEN LET new == UpdateRow(notes[r.id], r)
             IN /\ notes' = [notes EXCEPT ![r.id] = new]
                /\ notes_fts' = notes_au(notes_fts, notes[r.id], new)
        ELSE UNCHANGED <<notes, notes_fts>>
     /\ resp' = [op |-> "update", id |-> r.id, status |-> 200, ok |-> TRUE]
     /\ handler' = [handler EXCEPT ![h] = Idle]
     /\ UNCHANGED <<previews, next_id, clock, writes, clipped, gone>>

(* ------------------------------- reads -------------------------------- *)
\* NoteListItem of a row
ListItem(row) ==
  [id |-> row.id, title |-> row.title, created_at |-> row.created_at,
   source_url |-> row.source_url, tags |-> ParseTags(row.tags_json),
   snippet |-> Snippet(row.plaintext), preview_path |-> row.preview_path]

\* the orders ORDER BY created_at DESC may return the rows of S in (rows
\* with equal created_at come in an order SQL leaves open)
RECURSIVE Orders(_)
Orders(T) ==
  IF T = {} THEN {<<>>}
  ELSE UNION {{<<i>> \o rest : rest \in Orders(T \ {i})} : i \in T}

Place(order, i) == CHOOSE k \in DOMAIN order : order[k] = i

\* the ids of S, newest first, rows of one stamp by id
ById(S) ==
  SortSeq(SelectSeq([k \in 1 .. (next_id - 1) |-> next_id - k],
                    LAMBDA i : i \in S),
          LAMBDA i, j : \/ notes[i].created_at > notes[j].created_at
                        \/ /\ notes[i].created_at = notes[j].created_at
                           /\ i > j)

\* the stamps that several rows of S carry
Tied(S) ==
  LET base == ById(S)
  IN {notes[base[k]].created_at : k \in
        {l \in 1 .. Len(base) - 1 :
           notes[base[l]].created_at = notes[base[l + 1]].created_at}}

\* an ORDER BY created_at ASC
Oldest(S) ==
  LET base == ById(S) IN {[k \in DOMAIN base |-> base[Len(base) + 1 - k]]}

Newest(S) ==
  LET base == ById(S)
      tied == Tied(S)
      group(t) == {i \in S : notes[i].created_at = t}
      breaks == {f \in [tied -> UNION {Orders(group(t)) : t \in tied}] :
                   \A t \in tied : f[t] \in Orders(group(t))}
  IN {SortSeq(base,
              LAMBDA i, j :
                \/ notes[i].created_at > notes[j].created_at
                \/ /\ notes[i].created_at = notes[j].created_at
                   /\ Place(f[notes[i].created_at], i)
                        < Place(f[notes[i].created_at], j)) : f \in breaks}

\* ... LIMIT n, as list items
Rows(order, n) == [k \in 1 .. Min(n, Len(order)) |-> ListItem(notes[order[k]])]

\* GET /notes
ListNotes ==
  /\ \E order \in Newest(Live) :
       resp' = [op |-> "notes", status |-> 200, rows |-> Rows(order, ListLimit)]
  /\ UNCHANGED <<notes, notes_fts, previews, handler, next_id, clock, writes,
                 clipped, gone>>

\* the rowids notes_fts MATCH q yields for a one-word query: those with a
\* posting of the word in any column
Match(q) == {p[1] : p \in {x \in notes_fts.postings : x[3] \in Tokens(q)}}

\* FROM notes n JOIN notes_fts f ON f.rowid = n.rowid WHERE notes_fts MATCH q
Matched(q) ==
  LET rowids == Match(q) IN {i \in Live : notes[i].rowid \in rowids}

\* a /search that hands every q, blank or not, to MATCH
SearchThroughIndex(q) ==
  /\ \E order \in Newest(Matched(OrDefault(q))) :
       resp' = [op |-> "search", q |-> q, status |-> 200,
                rows |-> Rows(order, SearchLimit)]
  /\ UNCHANGED <<notes, notes_fts, previews, handler, next_id, clock, writes,
                 clipped, gone>>

\* FTS5 rejects a query whose last string is left open, which is one with an
\* odd number of double quotes (it rejects others too: these are the ones the
\* model tells apart)
Malformed(s) == Cardinality({k \in DOMAIN s : s[k] = 34}) % 2 = 1

\* the q that reach MATCH and that MATCH rejects
Rejected(q) == Trim(OrDefault(q)) # <<>> /\ Malformed(Unwrap(q))

\* GET /search?q= with a q that the blank test or MATCH takes
Search(q) ==
  /\ ~Rejected(q)
  /\ \E order \in Newest(IF Trim(OrDefault(q)) = <<>> THEN Live
                         ELSE Matched(Unwrap(q))) :
       resp' = [op |-> "search", q |-> q, status |-> 200,
                rows |-> Rows(order, SearchLimit)]
  /\ UNCHANGED <<notes, notes_fts, previews, handler, next_id, clock, writes,
                 clipped, gone>>

\* NoteDetail of a row, and the "not-found" record
Detail(row) ==
  [id |-> row.id, created_at |-> row.created_at, title |-> row.title,
   plaintext |-> row.plaintext, html |-> row.html,
   source_url |-> row.source_url, text_quote |-> row.text_quote,
   tags |-> ParseTags(row.tags_json), preview_path |-> row.preview_path,
   page_number |-> row.page_number,
   highlights |-> OrDefault(row.highlights_json)]

NotFoundDetail ==
  [id |-> NotFoundId, created_at |-> 0, title |-> NotFoundTitle,
   plaintext |-> None, html |-> None, source_url |-> None,
   text_quote |-> None, tags |-> <<>>, preview_path |-> None,
   page_number |-> None, highlights |-> <<>>]

\* GET /note/:id
GetNote(id) ==
  /\ resp' = [op |-> "note", id |-> id, status |-> 200,
              note |-> IF id \in Live THEN Detail(notes[id])
                       ELSE NotFoundDetail]
  /\ UNCHANGED <<notes, notes_fts, previews, handler, next_id, clock, writes,
                 clipped, gone>>

(* -------------------------- GET /export/:id.md ------------------------ *)
NoteName == <<110, 111, 116, 101>>

IsFileNameChar(c) ==
  \/ c >= 48 /\ c <= 57
  \/ c >= 65 /\ c <= 90
  \/ c >= 97 /\ c <= 122
  \/ c \in {45, 95, 32}

sanitize_filename(s) ==
  LET out == [k \in 1 .. Min(FileNameChars, Len(s)) |->
                IF IsFileNameChar(s[k]) THEN s[k] ELSE 45]
      t == Trim(out)
  IN IF t = <<>> THEN NoteName ELSE t

\* tags.iter().map(|t| format!("#{}", t)).collect::<Vec<_>>().join(" ")
RECURSIVE HashTags(_)
HashTags(tags) ==
  IF tags = <<>> THEN <<>>
  ELSE IF Len(tags) = 1 THEN <<35>> \o tags[1]
  ELSE <<35>> \o tags[1] \o <<32>> \o HashTags(Tail(tags))

\* md, piece by piece as the handler pushes it: a heading names a line that
\* the format string fixes, the second component is what it is filled with
Markdown(title, created_at, plaintext, html, source_url, tags) ==
  <<<<"# ", title>>, <<"- **Created:** ", created_at>>>>
  \o (IF IsSome(source_url) THEN <<<<"- **Source:** ", Unwrap(source_url)>>>>
      ELSE <<>>)
  \o (IF tags # <<>> THEN <<<<"- **Tags:** ", HashTags(tags)>>>> ELSE <<>>)
  \o (IF IsSome(plaintext)
      THEN <<<<"## Clip (plaintext)", Unwrap(plaintext)>>>> ELSE <<>>)
  \o (IF IsSome(html) THEN <<<<"## Clip (HTML)", Unwrap(html)>>>> ELSE <<>>)

\* One lock section; a missing row is exported as the note "Not found".
Export(id) ==
  LET found == id \in Live
      title == IF found THEN notes[id].title ELSE NotFoundTitle
      md == IF found
            THEN Markdown(title, notes[id].created_at, notes[id].plaintext,
                          notes[id].html, notes[id].source_url,
                          ParseTags(notes[id].tags_json))
            ELSE Markdown(title, 0, None, None, None, <<>>)
  IN /\ resp' = [op |-> "export", id |-> id, status |-> 200,
                 filename |-> <<sanitize_filename(title), id>>, md |-> md]
     /\ UNCHANGED <<notes, notes_fts, previews, handler, next_id, clock,
                    writes, clipped, gone>>

(* --------------------------- specification ---------------------------- *)
\* the steps of the handlers that write: /clip, /delete, /append, /update
Mutate ==
  \/ \E payload \in ClipPayloads, fs_ok \in BOOLEAN, t \in {clock, clock + 1} :
       Clip(payload, fs_ok, t) /\ Apart
  \/ \E id \in Targets : Delete(id) /\ Apart
  \/ \E h \in Handlers, id \in Targets, payload \in AppendPayloads :
       AppendRead(h, id, payload) /\ Apart
  \/ \E h \in Handlers, fs_ok \in BOOLEAN : AppendMerge(h, fs_ok) /\ Apart
  \/ \E h \in Handlers : AppendWrite(h) /\ Apart
  \/ \E h \in Handlers, id \in Targets, payload \in UpdatePayloads :
       UpdateRead(h, id, payload) /\ Apart
  \/ \E h \in Handlers : UpdateWrite(h) /\ Apart

\* GET /note/:id for any id
Get == \E id \in Targets : GetNote(id) /\ Apart

Next ==
  \/ Mutate
  \/ ListNotes /\ Apart
  \/ \E q \in Queries : Search(q) /\ Apart
  \/ Get

\* every request, in any interleaving of the handlers' lock sections
Spec == Init /\ [][Next]_vars

\* The handlers that read (/notes, /search, /note) change nothing but the
\* response, so what holds of the store under SpecWrites holds under Spec;
\* SpecGet adds the one read whose answer a claim about the writes looks at.
SpecWrites == Init /\ [][Mutate]_vars
SpecGet == Init /\ [][Mutate \/ Get]_vars

(* ------------------------- a store of many notes --------------------- *)
\* The LIMITs of /notes and /search cut only a store of more than 100 or 200
\* notes.  Such a store is what n clips of an empty payload leave on a new
\* database: ids and rowids 1 .. n, every title "Untitled clip", every row
\* indexed by notes_ai.  The clock ticked at every clip, or (`tied`) the
\* first two and the last two clips fell on the same tick.
EmptyClip == [source |-> None, selection |-> None, media |-> None, ops |-> None]

ManySizes == {SearchLimit + 1, ListLimit, ListLimit + 2}

Stamp(n, tied, i) ==
  IF ~tied THEN i
  ELSE IF i = 1 THEN 1 ELSE IF i = n THEN n - 2 ELSE i - 1

ManyRow(i, t) ==
  [rowid |-> i, id |-> i, created_at |-> t,
   title |-> ClipTitle(EmptyClip),
   plaintext |-> SelText(EmptyClip),
   html |-> SelHtml(EmptyClip),
   source_url |-> None,
   text_quote |-> SelText(EmptyClip),
   preview_path |-> None,
   tags_json |-> Some(OrDefault(OpsTags(EmptyClip))),
   page_number |-> None,
   highlights_json |-> Some(<<>>)]

InitMany ==
  \E n \in ManySizes, tied \in BOOLEAN :
    /\ notes = [i \in 1 .. n |-> ManyRow(i, Stamp(n, tied, i))]
    /\ notes_fts =
         [postings |-> UNION {Postings(i, FtsValues(ManyRow(i, 1))) : i \in 1 .. n},
          docsize |-> 1 .. n]
    /\ previews = [i \in Ids |-> None]
    /\ handler = [h \in Handlers |-> Idle]
    /\ resp = [op |-> "none"]
    /\ next_id = n + 1
    /\ clock = Stamp(n, tied, n)
    /\ writes = 0
    /\ clipped = [i \in 1 .. n |-> EmptyClip]
    /\ gone = {}
    /\ call = NoCall
    /\ NoLock

\* the requests sent to it: deletes of an id never handed out, of the oldest
\* and of the newest note, and the two listings
NextMany ==
  \/ \E id \in {0, 1, next_id - 1} : Delete(id) /\ Apart
  \/ ListNotes /\ Apart
  \/ \E q \in Queries : Search(q) /\ Apart

SpecMany == InitMany /\ [][NextMany]_vars

(* ------------------------- titles of new notes ------------------------ *)
\* clips of selection texts of every kind the title rule tells apart, and
\* appends to the notes they create
NextTitle ==
  \/ \E payload \in TitlePayloads, t \in {clock, clock + 1} :
       Clip(payload, TRUE, t) /\ Apart
  \/ \E h \in Handlers, id \in Targets, payload \in AppendPayloads :
       AppendRead(h, id, payload) /\ Apart
  \/ \E h \in Handlers, fs_ok \in BOOLEAN : AppendMerge(h, fs_ok) /\ Apart
  \/ \E h \in Handlers : AppendWrite(h) /\ Apart

SpecTitle == Init /\ [][NextTitle]_vars

(* --------------------------- merge_tags alone ------------------------- *)
\* merge_tags called on any stored list (NULL, or a list as /clip or a merge
\* wrote it) and any list of additions, then called again with the same
\* additions on its result, or with the additions in another order.
InitMergeTags ==
  /\ Fresh
  /\ call \in [step : {"args"},
               old_json : {None} \cup {Some(l) : l \in TagLists(MaxTags)},
               add : TagLists(MaxTags), out : {<<>>}]
  /\ NoLock

MergeTagsFirst ==
  /\ call.step = "args"
  /\ call' = [call EXCEPT !.step = "merged",
                          !.out = merge_tags(call.old_json, call.add)]
  /\ UNCHANGED <<server, mutex, task>>

MergeTagsAgain ==
  /\ call.step = "merged"
  /\ call' = [step |-> "again", old_json |-> Some(call.out), add |-> call.add,
              out |-> merge_tags(Some(call.out), call.add)]
  /\ UNCHANGED <<server, mutex, task>>

MergeTagsPermuted ==
  /\ call.step = "merged"
  /\ \E p \in Permutations(DOMAIN call.add) :
       LET add == [k \in DOMAIN call.add |-> call.add[p[k]]]
       IN call' = [step |-> "permuted", old_json |-> call.old_json,
                   add |-> add, out |-> merge_tags(call.old_json, add)]
  /\ UNCHANGED <<server, mutex, task>>

NextMergeTags == MergeTagsFirst \/ MergeTagsAgain \/ MergeTagsPermuted

SpecMergeTags == InitMergeTags /\ [][NextMergeTags]_vars

(* --------------------------- the store lock --------------------------- *)
\* Every handler reaches the Connection through state.db.lock().expect("db").
\* Here the lock is in sight: a request is a task that calls lock(), waits
\* while another task holds the guard, runs its section and drops the guard
\* at the end of the block.  /append and /update do so twice.  A panic while
\* the guard is held poisons the Mutex, and lock() on a poisoned Mutex
\* returns Err, on which expect("db") panics.
Ops == {"clip", "append", "update", "delete", "notes", "search", "note",
        "export"}
WriteOps == {"clip", "append", "update", "delete"}

\* what the requests of the tasks carry
LockClip == TextClip(Some(StrA))
LockAppend == TextClip(Some(StrB))
LockUpdate == [title |-> Some(StrC), tags |-> None]
LockQueries == {None, Some(StrA)}

\* a request that has not yet run the section that counts it in `writes`
Pending(g) ==
  /\ task[g].pc # "idle"
  /\ task[g].op \in WriteOps
  /\ task[g].section = 1

\* the slots are alike: a request takes the first idle one
FreeTask(h) ==
  task[h] = NoTask /\ \A g \in Tasks : g < h => task[g] # NoTask

\* a request arrives and its handler comes to its first lock()
Start(h, op) ==
  /\ FreeTask(h)
  /\ op \in WriteOps =>
       writes + Cardinality({g \in Tasks : Pending(g)}) < MaxLockWrites
  /\ task' = [task EXCEPT ![h] =
                [pc |-> "lock", op |-> op, section |-> 1, slot |-> 0]]
  /\ UNCHANGED <<server, call, mutex>>

\* lock() returns the guard
Lock(h) ==
  /\ task[h].pc = "lock"
  /\ mutex.holder = 0
  /\ ~mutex.poisoned
  /\ mutex' = [mutex EXCEPT !.holder = h]
  /\ task' = [task EXCEPT ![h].pc = "held"]
  /\ UNCHANGED <<server, call>>

\* lock() returns Err(PoisonError) and expect("db") panics: the handler is
\* gone, and with it what it had loaded
LockPanics(h) ==
  /\ task[h].pc = "lock"
  /\ mutex.holder = 0
  /\ mutex.poisoned
  /\ resp' = [op |-> "panic", in |-> task[h].op]
  /\ handler' = IF task[h].slot # 0
                 THEN [handler EXCEPT ![task[h].slot] = Idle] ELSE handler
  /\ task' = [task EXCEPT ![h] = NoTask]
  /\ UNCHANGED <<notes, notes_fts, previews, next_id, clock, writes, clipped,
                 gone, call, mutex>>

\* a guard whose drop leaves the Mutex taken
UnlockKeeps(m) == m

\* the guard goes out of scope
Unlock(m) == [m EXCEPT !.holder = 0]

\* task h is in lock section `section` of the handler of op
Holds(h, op, section) ==
  /\ task[h].pc = "held"
  /\ mutex.holder = h
  /\ task[h].op = op
  /\ task[h].section = section

\* the section was the handler's last: the guard is dropped, the answer sent
Done(h) ==
  /\ mutex' = Unlock(mutex)
  /\ task' = [task EXCEPT ![h] = NoTask]
  /\ UNCHANGED call

ClipSection(h) ==
  /\ Holds(h, "clip", 1)
  /\ Clip(LockClip, TRUE, clock)
  /\ Done(h)

DeleteSection(h) ==
  /\ Holds(h, "delete", 1)
  /\ \E id \in Targets : Delete(id)
  /\ Done(h)

\* the first section of /append: 404 ends the handler, a row lets it go on
AppendSection1(h) ==
  /\ Holds(h, "append", 1)
  /\ \E g \in Handlers, id \in Targets :
       /\ AppendRead(g, id, LockAppend)
       /\ task' = [task EXCEPT ![h] =
                     IF id \in Live
                     THEN [pc |-> "merge", op |-> "append", section |-> 2,
                           slot |-> g]
                     ELSE NoTask]
  /\ mutex' = Unlock(mutex)
  /\ UNCHANGED call

\* between the sections of /append, then on to the second lock()
AppendBetween(h) ==
  /\ task[h].pc = "merge"
  /\ AppendMerge(task[h].slot, TRUE)
  /\ task' = [task EXCEPT ![h].pc = "lock"]
  /\ UNCHANGED <<call, mutex>>

AppendSection2(h) ==
  /\ Holds(h, "append", 2)
  /\ AppendWrite(task[h].slot)
  /\ Done(h)

\* the first section of /update, then on to the second lock()
UpdateSection1(h) ==
  /\ Holds(h, "update", 1)
  /\ \E g \in Handlers, id \in Targets :
       /\ UpdateRead(g, id, LockUpdate)
       /\ task' = [task EXCEPT ![h] =
                     [pc |-> "lock", op |-> "update", section |-> 2,
                      slot |-> g]]
  /\ mutex' = Unlock(mutex)
  /\ UNCHANGED call

UpdateSection2(h) ==
  /\ Holds(h, "update", 2)
  /\ UpdateWrite(task[h].slot)
  /\ Done(h)

NotesSection(h) ==
  /\ Holds(h, "notes", 1)
  /\ ListNotes
  /\ Done(h)

SearchSection(h) ==
  /\ Holds(h, "search", 1)
  /\ \E q \in LockQueries : Search(q)
  /\ Done(h)

\* MATCH rejects q: the statement's first step returns Err and expect panics
\* with the guard held.  The unwinding drops the guard, which poisons the
\* Mutex; the caller gets no rows.
SearchPanics(h) ==
  /\ Holds(h, "search", 1)
  /\ \E q \in MalformedQueries :
       /\ Rejected(q)
       /\ resp' = [op |-> "panic", in |-> "search", q |-> q]
  /\ mutex' = [holder |-> 0, poisoned |-> TRUE]
  /\ task' = [task EXCEPT ![h] = NoTask]
  /\ UNCHANGED <<notes, notes_fts, previews, handler, next_id, clock, writes,
                 clipped, gone, call>>

NoteSection(h) ==
  /\ Holds(h, "note", 1)
  /\ \E id \in Targets : GetNote(id)
  /\ Done(h)

ExportSection(h) ==
  /\ Holds(h, "export", 1)
  /\ \E id \in Targets : Export(id)
  /\ Done(h)

\* what a handler does with the guard, and between its two guards
Section(h) ==
  \/ ClipSection(h)
  \/ DeleteSection(h)
  \/ AppendSection1(h)
  \/ AppendBetween(h)
  \/ AppendSection2(h)
  \/ UpdateSection1(h)
  \/ UpdateSection2(h)
  \/ NotesSection(h)
  \/ SearchSection(h)
  \/ SearchPanics(h)
  \/ NoteSection(h)
  \/ ExportSection(h)

NextLock ==
  \/ \E h \in Tasks, op \in Ops : Start(h, op)
  \/ \E h \in Tasks : Lock(h)
  \/ \E h \in Tasks : LockPanics(h)
  \/ \E h \in Tasks : Section(h)

\* Fair scheduling: a handler that can run its next step is not left aside
\* for ever, and one that calls lock() gets the guard if the guard comes
\* free again and again.  Nothing makes a client send a request.
Fairness ==
  \A h \in Tasks :
    /\ SF_vars(Lock(h))
    /\ WF_vars(LockPanics(h))
    /\ WF_vars(Section(h))

SpecLock == Init /\ [][NextLock]_vars /\ Fairness

(* ------------------------- previews of a note ------------------------ *)
\* The file previews/<id>.png is written by /clip before its INSERT and by
\* /append between its lock sections.  To tell one write of the file from
\* the next, the requests here carry screenshots of different bytes.
ShotClip(data_url) ==
  [source |-> None, selection |-> None,
   media |-> Some([screenshotDataUrl |-> Some(data_url)]), ops |-> None]

PreviewClips == {EmptyClip, ShotClip(UrlPng1)}
PreviewAppends == {ShotClip(UrlPng1), ShotClip(UrlPng2)}

NextPreview ==
  \/ \E payload \in PreviewClips, fs_ok \in BOOLEAN :
       Clip(payload, fs_ok, clock) /\ Apart
  \/ \E h \in Handlers, id \in Targets, payload \in PreviewAppends :
       AppendRead(h, id, payload) /\ Apart
  \/ \E h \in Handlers, fs_ok \in BOOLEAN : AppendMerge(h, fs_ok) /\ Apart
  \/ \E h \in Handlers : AppendWrite(h) /\ Apart

SpecPreview == Init /\ [][NextPreview]_vars

(* ------------------------------- claims ------------------------------- *)
\* the postings and docsize rows an index that mirrors the table holds
MirrorOf(rows) ==
  [postings |-> UNION {Postings(r.rowid, FtsValues(r)) : r \in rows},
   docsize |-> {r.rowid : r \in rows}]

\* C1: in every reachable state the search index holds exactly one entry per
\* live note, made of the tokens of its current title, plaintext, html and
\* tags, and nothing else (no posting of a deleted or overwritten value).
C1_IndexMirrorsNotes == notes_fts = MirrorOf({notes[i] : i \in Live})

\* an Option<String> column grew (or stayed): what was stored is a prefix of
\* what is stored now
Grew(old, new) ==
  IsSome(old) => IsSome(new) /\ IsPrefix(Unwrap(old), Unwrap(new))

\* C2: under any interleaving of request handlers, every write to a note
\* leaves the previously stored plaintext and html as prefixes of the new
\* values.
C2_TextOnlyGrows ==
  [][\A i \in Live \cap DOMAIN notes' :
       /\ Grew(notes[i].plaintext, notes'[i].plaintext)
       /\ Grew(notes[i].html, notes'[i].html)]_vars

\* C3: under any interleaving of append and update requests, a note's stored
\* tag set never loses a tag it held.
C3_TagsNeverLost ==
  [][\A i \in Live \cap DOMAIN notes' :
       Range(ParseTags(notes[i].tags_json))
         \subseteq Range(ParseTags(notes'[i].tags_json))]_vars

\* a sorted, deduplicated sequence of trimmed non-empty strings
ValidTags(tags) ==
  /\ \A k \in DOMAIN tags : tags[k] # <<>> /\ Trim(tags[k]) = tags[k]
  /\ \A k \in 1 .. Len(tags) - 1 : StrLess(tags[k], tags[k + 1])

\* C4: in every reachable state each note's stored tags are a deduplicated,
\* sorted sequence of trimmed non-empty strings.
C4_TagsValid == \A i \in Live : ValidTags(ParseTags(notes[i].tags_json))

\* C5: once a note's preview_path is non-null, no step changes it.
C5_PreviewPathKept ==
  [][\A i \in Live \cap DOMAIN notes' :
       IsSome(notes[i].preview_path)
         => notes'[i].preview_path = notes[i].preview_path]_vars

\* a note created with a preview, whose file still holds the bytes the clip
\* wrote, after an append that brought text and another preview
C5_Witness ==
  \E i \in Live :
    /\ resp.op = "append" /\ resp.status = 200 /\ resp.id = i
    /\ notes[i].preview_path = Some(PreviewRel(i))
    /\ previews[i] = Some(1)
    /\ notes[i].plaintext = Some(StrA \o BlankLine \o StrB)

\* what a capture payload says about the four capture fields
CaptureOf(payload) ==
  [source_url |-> IF IsSome(payload.source)
                  THEN Unwrap(payload.source).url ELSE None,
   page_number |-> IF IsSome(payload.ops)
                   THEN Unwrap(payload.ops).page ELSE None,
   highlights |-> IF IsSome(payload.ops) /\ IsSome(Unwrap(payload.ops).highlights)
                  THEN Unwrap(Unwrap(payload.ops).highlights) ELSE <<>>,
   text_quote |-> IF IsSome(payload.selection)
                  THEN Unwrap(payload.selection).text ELSE None]

\* the detail record a GET /note/:id answered with carries the capture
\* fields of the payload the note was created from
GetShowsCapture ==
  resp.op = "note" /\ resp.id \in DOMAIN clipped /\ resp.id \in Live =>
    /\ resp.note.id = resp.id
    /\ [f \in DOMAIN CaptureOf(clipped[resp.id]) |-> resp.note[f]]
         = CaptureOf(clipped[resp.id])

\* C6: the note get returns has source_url, page_number, highlights and
\* text_quote equal to the capture input, and no step changes a note's id,
\* created_at or these four fields.
C6_CaptureFieldsKept ==
  [][/\ GetShowsCapture'
     /\ \A i \in Live \cap DOMAIN notes' :
          /\ notes'[i].id = notes[i].id
          /\ notes'[i].created_at = notes[i].created_at
          /\ notes'[i].source_url = notes[i].source_url
          /\ notes'[i].page_number = notes[i].page_number
          /\ notes'[i].highlights_json = notes[i].highlights_json
          /\ notes'[i].text_quote = notes[i].text_quote]_vars

\* get answered with a note that has a source, a page and highlights, after
\* an append had grown its plaintext and tags
C6_Witness ==
  /\ resp.op = "note" /\ resp.id \in Live
  /\ resp.note.source_url = Some(StrUrl)
  /\ resp.note.page_number = Some(3)
  /\ resp.note.highlights = <<Rect1>>
  /\ resp.note.text_quote = Some(StrA)
  /\ resp.note.plaintext = Some(StrA \o BlankLine \o StrB)
  /\ resp.note.tags = <<StrA, StrB>>

\* handler h completes the second lock section of an append on a live note
AppendWrites(h) ==
  /\ handler[h].pc = "append_merged"
  /\ handler'[h] = Idle
  /\ handler[h].id \in Live

\* the rule of the claim: an empty addition leaves `loaded`; a non-empty one
\* onto non-empty text follows it after a blank line
Appended(loaded, addition, stored) ==
  /\ addition = <<>> => stored = loaded
  /\ (addition # <<>> /\ IsSome(loaded) /\ Unwrap(loaded) # <<>>)
       => stored = Some(Unwrap(loaded) \o BlankLine \o addition)

\* C7 as stated: an append stores, for an empty addition, exactly the
\* plaintext/html it loaded (absent stays absent), and for a non-empty
\* addition onto non-empty text the text, a blank line, the addition.
C7_AppendKeepsStored ==
  [][\A h \in Handlers : AppendWrites(h) =>
       LET r == handler[h]
       IN /\ Appended(r.old_pt, OrDefault(SelText(r.payload)),
                      notes'[r.id].plaintext)
          /\ Appended(r.old_html, OrDefault(SelHtml(r.payload)),
                      notes'[r.id].html)]_vars

\* C7 as amended: the same, except that an absent plaintext/html is stored
\* as the empty string by an append with an empty addition.
C7_AppendMerges ==
  [][\A h \in Handlers : AppendWrites(h) =>
       LET r == handler[h]
       IN /\ Appended(Some(OrDefault(r.old_pt)), OrDefault(SelText(r.payload)),
                      notes'[r.id].plaintext)
          /\ Appended(Some(OrDefault(r.old_html)), OrDefault(SelHtml(r.payload)),
                      notes'[r.id].html)]_vars

\* two appends of the same text have completed on a note: it is stored twice
C7_Witness ==
  \E i \in Live :
    /\ resp.op = "append" /\ resp.status = 200 /\ resp.id = i
    /\ notes[i].plaintext = Some(StrA \o BlankLine \o StrB \o BlankLine \o StrB)
    /\ clipped[i].selection = Some([text |-> Some(StrA), html |-> None])

\* the tokens in the current title, plaintext, html and tags of live notes
LiveTokens == UNION {RowTokens(notes[i]) : i \in Live}

\* C8: after delete(id), get(id) answers with the not-found record, and from
\* then on a search for a word that occurred only in deleted notes' content
\* returns no row.
C8_DeletedNotFound ==
  /\ resp.op = "note" /\ resp.id \notin Live => resp.note = NotFoundDetail
  /\ (resp.op = "search" /\ Tokens(OrDefault(resp.q)) # {}
        /\ Tokens(OrDefault(resp.q)) \subseteq gone \ LiveTokens)
       => resp.rows = <<>>

\* handler h completes an update whose id has no row
UpdateMisses(h) ==
  /\ handler[h].pc = "update_loaded"
  /\ handler'[h] = Idle
  /\ handler[h].id \notin Live

\* C9: update_metadata on an id that is not in the store answers not-found
\* (not ok) and leaves the store and the index unchanged.
C9_UpdateNotFound ==
  [][\A h \in Handlers : UpdateMisses(h) =>
       /\ resp'.op = "update" /\ resp'.status = 404 /\ resp'.ok = FALSE
       /\ UNCHANGED <<notes, notes_fts>>]_vars

\* C10: append on an id that is not in the store (when the handler looks it
\* up) answers not-found, creates no note, writes no preview file and leaves
\* every note and the index unchanged; the request is over with that answer.
C10_AppendNotFound ==
  [][\A h \in Handlers, id \in Targets, payload \in AppendPayloads :
       AppendRead(h, id, payload) /\ id \notin Live =>
         /\ resp' = [op |-> "append", id |-> id, status |-> 404, ok |-> FALSE]
         /\ UNCHANGED <<notes, notes_fts, previews, next_id, handler>>]_vars

\* an append was answered 404 while two notes were in the store, one with a
\* preview file
C10_Witness ==
  /\ resp.op = "append" /\ resp.status = 404 /\ resp.id \notin Live
  /\ Cardinality(Live) = 2
  /\ \E i \in Live : IsSome(previews[i])

\* C11: a delete of an id that has no row raises no error, reports 0 affected
\* rows and leaves every note and the index as they were; a delete of an id
\* that has a row reports 1 and removes that row and no other.
C11_DeleteAffected ==
  [][\A id \in Targets : Delete(id) =>
       /\ resp'.op = "delete" /\ resp'.status = 200 /\ resp'.ok
       /\ id \notin Live =>
            resp'.affected = 0 /\ UNCHANGED <<notes, notes_fts>>
       /\ id \in Live =>
            /\ resp'.affected = 1
            /\ DOMAIN notes' = Live \ {id}
            /\ \A i \in Live \ {id} : notes'[i] = notes[i]]_vars

\* a delete of an id that was never created was answered while two notes and
\* their postings were in the store
C11_Witness ==
  /\ resp.op = "delete" /\ resp.affected = 0 /\ resp.ok
  /\ resp.id \notin DOMAIN clipped
  /\ Cardinality(Live) = 2 /\ notes_fts.docsize = {1, 2}

\* C12: merge_tags applied a second time with the same additions to its own
\* result gives that result again; applied to the additions in any other
\* order it gives the same result; and its result holds every tag of the
\* list it was given as existing.
C12_MergeTagsAlgebra ==
  [][/\ call'.step \in {"again", "permuted"} => call'.out = call.out
     /\ call'.step \in {"merged", "again", "permuted"} =>
          Range(ParseTags(call'.old_json)) \subseteq Range(call'.out)]_vars

\* merge_tags was called on the unsorted stored list ["b"," a"] with the
\* additions ["b",""," a"] reordered: the result is [" a","a","b"]
C12_Witness ==
  /\ call.step = "permuted"
  /\ call.old_json = Some(<<StrB, <<32, 97>>>>)
  /\ call.add = <<StrB, <<>>, <<32, 97>>>>
  /\ call.out = <<<<32, 97>>, StrA, StrB>>

\* handler h completes an update whose id has a row
UpdateWrites(h) ==
  /\ handler[h].pc = "update_loaded"
  /\ handler'[h] = Idle
  /\ handler[h].id \in Live

\* the additions of a request as merge_tags takes them: trimmed, blanks dropped
Provided(tags) == {Trim(tags[k]) : k \in DOMAIN tags} \ {<<>>}

\* C13: an update of a note that has a row replaces title exactly when the
\* request carries one, sets tags to the sorted union of the tags stored in
\* the row and the tags of the request (leaves them as stored when the
\* request carries none), and leaves every other field of the row unchanged.
C13_UpdateFrame ==
  [][\A h \in Handlers : UpdateWrites(h) =>
       LET r == handler[h]
           old == notes[r.id]
           stored == ParseTags(old.tags_json)
       IN notes'[r.id] =
            [old EXCEPT
               !.title = IF IsSome(r.payload.title)
                         THEN Unwrap(r.payload.title) ELSE old.title,
               !.tags_json =
                 Some(IF IsSome(r.payload.tags)
                      THEN SortedSeq(Range(stored)
                                       \cup Provided(Unwrap(r.payload.tags)))
                      ELSE stored)]]_vars

\* C14: in every state of the store, a search whose query is absent, empty
\* or blank answers with the first 100 rows of an answer /notes can give in
\* that state, in the same order, whatever the index holds.
C14_BlankSearchLists ==
  [][resp'.op = "search" /\ Trim(OrDefault(resp'.q)) = <<>> /\ Search(resp'.q)
       => resp'.rows \in {Take(Rows(order, ListLimit), SearchLimit) :
                            order \in Newest(Live)}]_vars

\* a blank search answered with 100 of more than 100 live notes while the
\* index still held the postings of a deleted note
C14_Witness ==
  /\ resp.op = "search" /\ resp.q = Some(<<32>>)
  /\ Len(resp.rows) = SearchLimit
  /\ Cardinality(Live) > SearchLimit
  /\ notes_fts # MirrorOf({notes[i] : i \in Live})

\* C15: a search with a non-blank query returns only live notes whose current
\* title, plaintext, html or tags hold the words of the query; so a search
\* for a word that no live note holds returns no row.
C15_SearchFindsLiveContent ==
  [][resp'.op = "search" /\ Trim(OrDefault(resp'.q)) # <<>> /\ Search(resp'.q)
       => \A k \in DOMAIN resp'.rows :
            /\ resp'.rows[k].id \in Live
            /\ Tokens(Unwrap(resp'.q)) \subseteq RowTokens(notes[resp'.rows[k].id])
    ]_vars

\* C16: /notes answers with the summaries of live notes only, each once: all
\* of them when there are at most 200, otherwise 200 of them such that no
\* note left out is newer than one returned; the rows come in non-increasing
\* created_at order.
C16_ListRecent ==
  [][ListNotes =>
       LET rows == resp'.rows
           ids == {rows[k].id : k \in DOMAIN rows}
       IN /\ Len(rows) = Min(Cardinality(Live), ListLimit)
          /\ ids \subseteq Live /\ Cardinality(ids) = Len(rows)
          /\ \A k \in DOMAIN rows : rows[k] = ListItem(notes[rows[k].id])
          /\ \A k \in 1 .. Len(rows) - 1 :
               rows[k].created_at >= rows[k + 1].created_at
          /\ \A i \in Live \ ids, k \in DOMAIN rows :
               notes[i].created_at <= rows[k].created_at]_vars

\* /notes answered with 200 of 201 live notes, leaving out the older of the
\* two oldest, after the newest note had been deleted
C16_Witness ==
  /\ resp.op = "notes" /\ Len(resp.rows) = ListLimit
  /\ Cardinality(Live) = ListLimit + 1
  /\ (next_id - 1) \notin Live
  /\ resp.rows[ListLimit].id = 2
  /\ notes[1].created_at = notes[2].created_at

\* C17: a clip stores as title the first 80 characters of the trimmed
\* selection text when that is not empty, and "Untitled clip" when the text
\* is absent, empty or blank; it stores the selection text, untrimmed, as
\* plaintext; and no append changes the title.
C17_TitleFromText ==
  [][/\ next_id' # next_id =>
          LET text == SelText(clipped'[next_id])
              trimmed == IF IsSome(text) THEN Trim(Unwrap(text)) ELSE <<>>
          IN /\ notes'[next_id].title =
                  IF trimmed # <<>>
                  THEN SubSeq(trimmed, 1, Min(TitleChars, Len(trimmed)))
                  ELSE UntitledClip
             /\ notes'[next_id].plaintext = text
     /\ \A h \in Handlers : AppendWrites(h) =>
          notes'[handler[h].id].title = notes[handler[h].id].title]_vars

\* a note clipped from a padded text of 83 characters has the 80 characters
\* after the leading blank as title, after an append that grew its plaintext
C17_Witness ==
  \E i \in Live :
    /\ resp.op = "append" /\ resp.status = 200 /\ resp.id = i
    /\ notes[i].title = Letters(TitleChars)
    /\ notes[i].plaintext =
         Some(<<32>> \o Letters(TitleChars + 1) \o <<10>> \o BlankLine \o StrB)

\* the blob write of a request succeeded: it sent a data URL with a comma and
\* a base64 part, and the file system took the bytes
BlobWritten(payload, fs_ok) ==
  /\ IsSome(DataUrl(payload))
  /\ Unwrap(DataUrl(payload)).comma
  /\ IsSome(Unwrap(DataUrl(payload)).decoded)
  /\ fs_ok

\* C18: a clip stores a preview_path exactly when its blob write succeeded,
\* and stores the note with all its other fields either way; an append that
\* found no preview offers a path exactly when its blob write succeeded, goes
\* on to its write either way, and its write stores the merged plaintext,
\* html and tags and leaves preview_path as it is when it has no path to
\* offer; a stored preview_path always names a file that was written.
C18_PreviewOnlyAfterWrite ==
  [][/\ \A payload \in ClipPayloads, fs_ok \in BOOLEAN, t \in {clock, clock + 1} :
          Clip(payload, fs_ok, t) =>
            /\ IsSome(notes'[next_id].preview_path) <=> BlobWritten(payload, fs_ok)
            /\ [notes'[next_id] EXCEPT !.preview_path = None]
                 = ClipRow(next_id, t, payload, None)
     /\ \A h \in Handlers, fs_ok \in BOOLEAN : AppendMerge(h, fs_ok) =>
          /\ handler'[h].pc = "append_merged"
          /\ ~IsSome(handler[h].old_preview) =>
               (IsSome(handler'[h].preview_rel)
                  <=> BlobWritten(handler[h].payload, fs_ok))
     /\ \A h \in Handlers : AppendWrites(h) =>
          LET r == handler[h]
          IN /\ notes'[r.id].plaintext = Some(r.new_pt)
             /\ notes'[r.id].html = Some(r.new_html)
             /\ notes'[r.id].tags_json = Some(r.tags_json)
             /\ ~IsSome(r.preview_rel) =>
                  notes'[r.id].preview_path = notes[r.id].preview_path
     /\ \A i \in DOMAIN notes' :
          IsSome(notes'[i].preview_path) => IsSome(previews'[i])]_vars

\* a clip and an append on its note both sent a screenshot and both blob
\* writes failed: the note has the merged text and tags and no preview_path
C18_Witness ==
  \E i \in Live :
    /\ resp.op = "append" /\ resp.status = 200 /\ resp.id = i
    /\ clipped[i].media = Some([screenshotDataUrl |-> Some(UrlPng1)])
    /\ notes[i].plaintext = Some(StrA \o BlankLine \o StrB)
    /\ notes[i].tags_json = Some(<<StrA, StrB>>)
    /\ notes[i].preview_path = None /\ previews[i] = None

C20_SearchLeavesStoreUsable ==
  /\ ~mutex.poisoned
  /\ resp.op # "panic"

\* the second lock section of the /append in slot h ends and answers ok
AppendAcks(h) ==
  /\ handler[h].pc = "append_merged"
  /\ handler'[h] = Idle
  /\ resp'.op = "append" /\ resp'.ok

\* C21: whenever an append answers ok, the note was in the store when its
\* UPDATE ran and holds the merged text afterwards, and the UPDATE brought no
\* note back: the notes after it are the notes before it.
C21_AppendOkWrote ==
  [][\A h \in Handlers : AppendAcks(h) =>
       LET r == handler[h]
       IN /\ r.id \in Live
          /\ DOMAIN notes' = Live
          /\ r.id \in DOMAIN notes'
          /\ notes'[r.id].plaintext = Some(r.new_pt)
          /\ notes'[r.id].html = Some(r.new_html)]_vars

\* C22: once the preview file of a note has been written, no step writes
\* other bytes to it
C22_PreviewWrittenOnce ==
  [][\A i \in Ids : IsSome(previews[i]) => previews'[i] = previews[i]]_vars


====
